---- MODULE Spec2Model ----
(***************************************************************************)
(* Model of the rexolve backend.                                           *)
(*                                                                         *)
(*  - server.broken.js (first program, lines 1-360): the doubt solver     *)
(*    with its SQLite store (Doubts, DailyTasks, WeakTopics) and the       *)
(*    handlers POST /ask-doubt, GET /daily-tasks, POST /complete-task.     *)
(*    Every `await` of a handler is a suspension point: one action of the  *)
(*    model is the awaited operation taking effect together with the       *)
(*    synchronous code that follows it up to the next await.               *)
(*  - server.js: the decision advisor, whose POST /ask-doubt reshapes the  *)
(*    model's answer into a word list (FORMAT ENFORCEMENT).                *)
(***************************************************************************)
EXTENDS Integers, Sequences, FiniteSets, TLC

(***************************************************************************)
(* Bounds of the model.                                                    *)
(***************************************************************************)
\* number of HTTP requests of the doubt solver that arrive in a behaviour
NumRequests == 2
\* number of calendar days the clock runs through
MaxDay == 2
\* longest raw answer (in characters) the language model returns
MaxRawLen == 4

Requests == 1..NumRequests

VARIABLES
    day,         \* the calendar day of the clock (new Date().toISOString().slice(0, 10))
    doubts,      \* table Doubts, rows in rowid order
    dailyTasks,  \* table DailyTasks, rows in rowid order
    weakTopics,  \* table WeakTopics, rows in rowid order
    handler,     \* handler[r]: the route request r is served by ("none" before it arrives)
    pc,          \* pc[r]: the await request r is suspended at
    body,        \* body[r]: req.body of request r
    loc,         \* loc[r]: the local variables of the handler serving r
    res,         \* res[r]: the response sent for r (status 0: none yet)
    fpc,         \* decision advisor: position of its /ask-doubt handler
    messages,    \* decision advisor: req.body.messages
    lastUserMessage, \* decision advisor: the local lastUserMessage
    rawAnswer,   \* decision advisor: completion.choices[0].message.content
    fres         \* decision advisor: the response sent

svars == <<day, doubts, dailyTasks, weakTopics, handler, pc, body, loc, res>>
fvars == <<fpc, messages, lastUserMessage, rawAnswer, fres>>
vars == <<day, doubts, dailyTasks, weakTopics, handler, pc, body, loc, res,
          fpc, messages, lastUserMessage, rawAnswer, fres>>

(***************************************************************************)
(* The store.                                                              *)
(***************************************************************************)
Null == "null"

\* id INTEGER PRIMARY KEY AUTOINCREMENT: rows are never deleted, so the next
\* id is one more than the number of rows.
NextId(table) == Len(table) + 1

\* WeakTopics contents a database file left by earlier runs may hold
\* (path.join(__dirname, "doubt_solver.db"), CREATE TABLE IF NOT EXISTS).
WeakRow(i, t, s, d) == [id |-> i, topic |-> t, score |-> s, last_updated |-> d]

InitialWeakTopics ==
    { <<>>,
      << WeakRow(1, "Fractions", 5, 0) >>,
      << WeakRow(1, "Algebra", 2, 0), WeakRow(2, "Fractions", 5, 0),
         WeakRow(3, "Geometry", 2, 0) >> }

\* the handlers' local variables before they are assigned (existing 0: undefined)
NoLocals ==
    [today |-> 0, timestamp |-> 0, now |-> 0, topic |-> Null, existing |-> 0,
     topics |-> <<>>, tasks |-> <<>>, inserted |-> 0, result |-> <<>>]

NoBody == [given |-> FALSE, messages |-> <<>>, taskId |-> 0]

NoResponse == [status |-> 0, error |-> Null]

(***************************************************************************)
(* Initial state: the server has started (db.serialize created the tables  *)
(* if absent), no request has arrived.                                     *)
(***************************************************************************)
ServerInit ==
    /\ day = 1
    /\ doubts = <<>>
    /\ dailyTasks = <<>>
    /\ weakTopics \in InitialWeakTopics
    /\ handler = [r \in Requests |-> "none"]
    /\ pc = [r \in Requests |-> "idle"]
    /\ body = [r \in Requests |-> NoBody]
    /\ loc = [r \in Requests |-> NoLocals]
    /\ res = [r \in Requests |-> NoResponse]

\* requests are numbered in their order of arrival
Arrives(r) ==
    /\ handler[r] = "none"
    /\ \A q \in Requests : q < r => handler[q] # "none"

\* res.status(s).json({ error }) / res.json(...): the handler is finished
Respond(r, s, e) ==
    /\ res' = [res EXCEPT ![r] = [status |-> s, error |-> e]]
    /\ pc' = [pc EXCEPT ![r] = "done"]

\* the clock passes midnight
Tick ==
    /\ day < MaxDay
    /\ day' = day + 1
    /\ UNCHANGED <<doubts, dailyTasks, weakTopics, handler, pc, body, loc, res, fvars>>

(***************************************************************************)
(* POST /ask-doubt                                                         *)
(***************************************************************************)
Message(r, c) == [role |-> r, content |-> c]

\* req.body.messages as clients send it: absent, empty, or a conversation
AskBodies ==
    { NoBody,
      [NoBody EXCEPT !.given = TRUE],
      [NoBody EXCEPT !.given = TRUE, !.messages = << Message("user", "q1") >>],
      [NoBody EXCEPT !.given = TRUE,
                     !.messages = << Message("user", "q1"), Message("assistant", "a1"),
                                     Message("user", "") >>] }

\* !messages || messages.length === 0
MessagesMissing(b) == ~b.given \/ Len(b.messages) = 0

\* messages[messages.length - 1].content || null
QuestionText(b) ==
    LET last == b.messages[Len(b.messages)]
    IN IF last.content = "" THEN Null ELSE last.content

\* getAIResponse returns subject "General", topic "General" and the content
AIResult == [subject |-> "General", topic |-> "General", answer |-> "content"]

\* the request arrives; validation; getAIResponse is called
AskDoubt_validate(r) ==
    /\ Arrives(r)
    /\ \E m \in AskBodies :
        /\ handler' = [handler EXCEPT ![r] = "askDoubt"]
        /\ body' = [body EXCEPT ![r] = m]
        /\ IF MessagesMissing(m)
           THEN Respond(r, 400, "Messages required")
           ELSE /\ pc' = [pc EXCEPT ![r] = "getAIResponse"]
                /\ res' = res
    /\ UNCHANGED <<day, doubts, dailyTasks, weakTopics, loc, fvars>>

\* getAIResponse resolves; the INSERT INTO Doubts is issued
AskDoubt_getAIResponse(r) ==
    /\ handler[r] = "askDoubt" /\ pc[r] = "getAIResponse"
    /\ loc' = [loc EXCEPT ![r].topic = AIResult.topic, ![r].timestamp = day]
    /\ pc' = [pc EXCEPT ![r] = "insertDoubt"]
    /\ UNCHANGED <<day, doubts, dailyTasks, weakTopics, handler, body, res, fvars>>

\* the failed exchange is logged to Doubts before the 500 is sent
AskDoubt_aiFails_logged(r) ==
    /\ handler[r] = "askDoubt" /\ pc[r] = "getAIResponse"
    /\ doubts' = Append(doubts,
                        [id |-> NextId(doubts),
                         question_text |-> body[r].messages[Len(body[r].messages)].content,
                         answer |-> Null, subject |-> "General", topic |-> "General",
                         timestamp |-> day])
    /\ Respond(r, 500, "Server error")
    /\ UNCHANGED <<day, dailyTasks, weakTopics, handler, body, loc, fvars>>

\* groq.chat.completions.create rejects: caught, 500, nothing was written
AskDoubt_aiFails(r) ==
    /\ handler[r] = "askDoubt" /\ pc[r] = "getAIResponse"
    /\ Respond(r, 500, "Server error")
    /\ UNCHANGED <<day, doubts, dailyTasks, weakTopics, handler, body, loc, fvars>>

\* topic || "General"
TopicOrGeneral(t) == IF t = Null \/ t = "" THEN "General" ELSE t

\* INSERT INTO Doubts ...; then the SELECT on WeakTopics is issued
AskDoubt_insertDoubt(r) ==
    /\ handler[r] = "askDoubt" /\ pc[r] = "insertDoubt"
    /\ doubts' = Append(doubts,
                        [id |-> NextId(doubts),
                         question_text |-> QuestionText(body[r]),
                         answer |-> AIResult.answer,
                         subject |-> TopicOrGeneral(AIResult.subject),
                         topic |-> TopicOrGeneral(loc[r].topic),
                         timestamp |-> loc[r].timestamp])
    /\ loc' = [loc EXCEPT ![r].now = day]
    /\ pc' = [pc EXCEPT ![r] = "selectWeakTopic"]
    /\ UNCHANGED <<day, dailyTasks, weakTopics, handler, body, res, fvars>>

\* db.get("SELECT * FROM WeakTopics WHERE topic = ?"): a matching row, or
\* undefined when there is none; which row when several match is the engine's
MatchingRows(table, t) == {i \in 1..Len(table) : table[i].topic = t}

AskDoubt_selectWeakTopic(r) ==
    /\ handler[r] = "askDoubt" /\ pc[r] = "selectWeakTopic"
    /\ LET hits == MatchingRows(weakTopics, TopicOrGeneral(loc[r].topic))
       IN IF hits = {}
          THEN /\ loc' = [loc EXCEPT ![r].existing = 0]
               /\ pc' = [pc EXCEPT ![r] = "insertWeakTopic"]
          ELSE /\ \E i \in hits : loc' = [loc EXCEPT ![r].existing = weakTopics[i].id]
               /\ pc' = [pc EXCEPT ![r] = "updateWeakTopic"]
    /\ UNCHANGED <<day, doubts, dailyTasks, weakTopics, handler, body, res, fvars>>

\* INSERT INTO WeakTopics (topic, score, last_updated) VALUES (?, 1, now)
InsertWeakTopic(table, t, now) == Append(table, WeakRow(NextId(table), t, 1, now))

\* the UPDATE without its WHERE clause: every row is incremented
UpdateWeakTopic_noWhere(table, id, now) ==
    [i \in 1..Len(table) |-> [table[i] EXCEPT !.score = @ + 1, !.last_updated = now]]

\* UPDATE WeakTopics SET score = score + 1, last_updated = ? WHERE id = ?
UpdateWeakTopic(table, id, now) ==
    [i \in 1..Len(table) |->
        IF table[i].id = id
        THEN [table[i] EXCEPT !.score = @ + 1, !.last_updated = now]
        ELSE table[i]]

AskDoubt_insertWeakTopic(r) ==
    /\ handler[r] = "askDoubt" /\ pc[r] = "insertWeakTopic"
    /\ weakTopics' = InsertWeakTopic(weakTopics, TopicOrGeneral(loc[r].topic), loc[r].now)
    /\ Respond(r, 200, Null)
    /\ UNCHANGED <<day, doubts, dailyTasks, handler, body, loc, fvars>>

AskDoubt_updateWeakTopic(r) ==
    /\ handler[r] = "askDoubt" /\ pc[r] = "updateWeakTopic"
    /\ weakTopics' = UpdateWeakTopic(weakTopics, loc[r].existing, loc[r].now)
    /\ Respond(r, 200, Null)
    /\ UNCHANGED <<day, doubts, dailyTasks, handler, body, loc, fvars>>

(***************************************************************************)
(* GET /daily-tasks: ensureDailyTasks                                      *)
(***************************************************************************)
\* SELECT * FROM DailyTasks WHERE date = ?
TasksOfDay(table, d) == SelectSeq(table, LAMBDA t : t.date = d)

\* how many tasks a day must have before generation is skipped
DailyQuota == 5
\* LIMIT 3 of the weak-topic query
TopLimit == 3
\* number of practice tasks of a batch
NumPractice == 3

Min(a, b) == IF a < b THEN a ELSE b

\* SELECT * FROM WeakTopics ORDER BY score DESC LIMIT 3: the results the
\* engine may return (rows of equal score come in an order SQL leaves open)
TopWeakTopics(table) ==
    LET n == Len(table)
        k == Min(TopLimit, n)
        orders == {o \in [1..n -> 1..n] :
                      /\ \A i, j \in 1..n : i # j => o[i] # o[j]
                      /\ \A i, j \in 1..n : i < j => table[o[i]].score >= table[o[j]].score}
    IN {[i \in 1..k |-> table[o[i]]] : o \in orders}

\* weakTopics.length > 0 ? weakTopics.map(t => t.topic) : ["General"]
TopicsOf(rows) ==
    IF Len(rows) > 0 THEN [i \in 1..Len(rows) |-> rows[i].topic] ELSE <<"General">>

\* every practice task on topics[0]: the index is not cycled
PracticeTask_firstTopic(topics, i) ==
    [task_type |-> "practice", topic |-> topics[1],
     question_text |-> "Practice question on " \o topics[1] \o " #" \o ToString(i + 1)]

\* the loop pushing the practice tasks, then the revision and concept tasks
PracticeTask(topics, i) ==
    LET topic == topics[(i % Len(topics)) + 1]
    IN [task_type |-> "practice", topic |-> topic,
        question_text |-> "Practice question on " \o topic \o " #" \o ToString(i + 1)]

BuildTasks(topics) ==
    [i \in 1..NumPractice |-> PracticeTask(topics, i - 1)]
    \o << [task_type |-> "revision", topic |-> topics[1],
           question_text |-> "Revision question on " \o topics[1]],
          [task_type |-> "concept", topic |-> topics[1],
           question_text |-> "Read a short concept note on " \o topics[1]] >>

\* INSERT INTO DailyTasks (date, task_type, topic, question_text, is_completed)
\* VALUES (today, t.task_type, t.topic, t.question_text, 0)
InsertDailyTask(table, today, t) ==
    Append(table, [id |-> NextId(table), date |-> today, task_type |-> t.task_type,
                   topic |-> t.topic, question_text |-> t.question_text,
                   is_completed |-> 0])

\* existing.length > 5: the quota test off by one
QuotaMet_offByOne(existing) == Len(existing) > DailyQuota

\* existing.length >= 5
QuotaMet(existing) == Len(existing) >= DailyQuota

\* the request arrives; today is read off the clock; the first SELECT is issued
ensureDailyTasks_today(r) ==
    /\ Arrives(r)
    /\ handler' = [handler EXCEPT ![r] = "dailyTasks"]
    /\ loc' = [loc EXCEPT ![r].today = day]
    /\ pc' = [pc EXCEPT ![r] = "existing"]
    /\ UNCHANGED <<day, doubts, dailyTasks, weakTopics, body, res, fvars>>

\* existing = await all(...); if (existing.length >= 5) return existing
ensureDailyTasks_existing(r) ==
    /\ handler[r] = "dailyTasks" /\ pc[r] = "existing"
    /\ LET existing == TasksOfDay(dailyTasks, loc[r].today)
       IN IF QuotaMet(existing)
          THEN /\ loc' = [loc EXCEPT ![r].existing = Len(existing), ![r].result = existing]
               /\ Respond(r, 200, Null)
          ELSE /\ loc' = [loc EXCEPT ![r].existing = Len(existing)]
               /\ pc' = [pc EXCEPT ![r] = "weakTopics"]
               /\ res' = res
    /\ UNCHANGED <<day, doubts, dailyTasks, weakTopics, handler, body, fvars>>

\* weakTopics = await all(...); topics and tasks are built; the first INSERT
\* is issued
ensureDailyTasks_weakTopics(r) ==
    /\ handler[r] = "dailyTasks" /\ pc[r] = "weakTopics"
    /\ \E rows \in TopWeakTopics(weakTopics) :
        loc' = [loc EXCEPT ![r].topics = TopicsOf(rows),
                           ![r].tasks = BuildTasks(TopicsOf(rows))]
    /\ pc' = [pc EXCEPT ![r] = "insert"]
    /\ UNCHANGED <<day, doubts, dailyTasks, weakTopics, handler, body, res, fvars>>

\* for (const t of tasks) await run(INSERT ...): one INSERT takes effect
ensureDailyTasks_insert(r) ==
    /\ handler[r] = "dailyTasks" /\ pc[r] = "insert"
    /\ LET i == loc[r].inserted + 1
       IN /\ dailyTasks' = InsertDailyTask(dailyTasks, loc[r].today, loc[r].tasks[i])
          /\ loc' = [loc EXCEPT ![r].inserted = i]
          /\ pc' = [pc EXCEPT ![r] = IF i = Len(loc[r].tasks) THEN "allToday" ELSE "insert"]
    /\ UNCHANGED <<day, doubts, weakTopics, handler, body, res, fvars>>

\* allToday = await all(...); return allToday
ensureDailyTasks_allToday(r) ==
    /\ handler[r] = "dailyTasks" /\ pc[r] = "allToday"
    /\ loc' = [loc EXCEPT ![r].result = TasksOfDay(dailyTasks, loc[r].today)]
    /\ Respond(r, 200, Null)
    /\ UNCHANGED <<day, doubts, dailyTasks, weakTopics, handler, body, fvars>>

(***************************************************************************)
(* POST /complete-task                                                     *)
(***************************************************************************)
\* task ids clients send (0: taskId absent)
TaskIds == {0, 1, 2}

\* UPDATE DailyTasks SET is_completed = 1 WHERE id = ?
CompleteDailyTask(table, id) ==
    [i \in 1..Len(table) |->
        IF table[i].id = id THEN [table[i] EXCEPT !.is_completed = 1] ELSE table[i]]

\* the request arrives; validation; the UPDATE is issued
completeTask_validate(r) ==
    /\ Arrives(r)
    /\ \E id \in TaskIds :
        /\ handler' = [handler EXCEPT ![r] = "completeTask"]
        /\ body' = [body EXCEPT ![r] = [NoBody EXCEPT !.given = TRUE, !.taskId = id]]
        /\ IF id = 0
           THEN Respond(r, 400, "taskId required")
           ELSE /\ pc' = [pc EXCEPT ![r] = "updateTask"]
                /\ res' = res
    /\ UNCHANGED <<day, doubts, dailyTasks, weakTopics, loc, fvars>>

completeTask_update(r) ==
    /\ handler[r] = "completeTask" /\ pc[r] = "updateTask"
    /\ dailyTasks' = CompleteDailyTask(dailyTasks, body[r].taskId)
    /\ Respond(r, 200, Null)
    /\ UNCHANGED <<day, doubts, weakTopics, handler, body, loc, fvars>>

(***************************************************************************)
(* A store call rejects (run/get/all call reject(err)): the handler's      *)
(* catch answers 500; what was written before stays written.               *)
(***************************************************************************)
StoreAwaits ==
    {"insertDoubt", "selectWeakTopic", "insertWeakTopic", "updateWeakTopic",
     "existing", "weakTopics", "insert", "allToday", "updateTask"}

StoreFails(r) ==
    /\ pc[r] \in StoreAwaits
    /\ Respond(r, 500, "Server error")
    /\ UNCHANGED <<day, doubts, dailyTasks, weakTopics, handler, body, loc, fvars>>

(***************************************************************************)
(* The doubt solver under concurrent requests, and under requests that do  *)
(* not overlap.                                                            *)
(***************************************************************************)
FormatterIdle ==
    /\ fpc = "off"
    /\ messages = <<>>
    /\ lastUserMessage = <<>>
    /\ rawAnswer = <<>>
    /\ fres = NoResponse

Init == ServerInit /\ FormatterIdle

Next ==
    \/ Tick
    \/ \E r \in Requests : AskDoubt_validate(r)
    \/ \E r \in Requests : AskDoubt_getAIResponse(r)
    \/ \E r \in Requests : AskDoubt_aiFails(r)
    \/ \E r \in Requests : AskDoubt_insertDoubt(r)
    \/ \E r \in Requests : AskDoubt_selectWeakTopic(r)
    \/ \E r \in Requests : AskDoubt_insertWeakTopic(r)
    \/ \E r \in Requests : AskDoubt_updateWeakTopic(r)
    \/ \E r \in Requests : ensureDailyTasks_today(r)
    \/ \E r \in Requests : ensureDailyTasks_existing(r)
    \/ \E r \in Requests : ensureDailyTasks_weakTopics(r)
    \/ \E r \in Requests : ensureDailyTasks_insert(r)
    \/ \E r \in Requests : ensureDailyTasks_allToday(r)
    \/ \E r \in Requests : completeTask_validate(r)
    \/ \E r \in Requests : completeTask_update(r)
    \/ \E r \in Requests : StoreFails(r)

Spec == Init /\ [][Next]_vars

\* no request is being served
Quiet == \A r \in Requests : pc[r] \in {"idle", "done"}

\* a request arrives only when no other is being served
NextSeq ==
    \/ Tick
    \/ \E r \in Requests : Quiet /\ AskDoubt_validate(r)
    \/ \E r \in Requests : AskDoubt_getAIResponse(r)
    \/ \E r \in Requests : AskDoubt_aiFails(r)
    \/ \E r \in Requests : AskDoubt_insertDoubt(r)
    \/ \E r \in Requests : AskDoubt_selectWeakTopic(r)
    \/ \E r \in Requests : AskDoubt_insertWeakTopic(r)
    \/ \E r \in Requests : AskDoubt_updateWeakTopic(r)
    \/ \E r \in Requests : Quiet /\ ensureDailyTasks_today(r)
    \/ \E r \in Requests : ensureDailyTasks_existing(r)
    \/ \E r \in Requests : ensureDailyTasks_weakTopics(r)
    \/ \E r \in Requests : ensureDailyTasks_insert(r)
    \/ \E r \in Requests : ensureDailyTasks_allToday(r)
    \/ \E r \in Requests : Quiet /\ completeTask_validate(r)
    \/ \E r \in Requests : completeTask_update(r)
    \/ \E r \in Requests : StoreFails(r)

SpecSeq == Init /\ [][NextSeq]_vars

(***************************************************************************)
(* server.js: text helpers.  A text is the sequence of its characters.     *)
(***************************************************************************)
LowerLetters ==
    <<"a", "b", "c", "d", "e", "f", "g", "h", "i", "j", "k", "l", "m",
      "n", "o", "p", "q", "r", "s", "t", "u", "v", "w", "x", "y", "z">>
UpperLetters ==
    <<"A", "B", "C", "D", "E", "F", "G", "H", "I", "J", "K", "L", "M",
      "N", "O", "P", "Q", "R", "S", "T", "U", "V", "W", "X", "Y", "Z">>
Digits == <<"0", "1", "2", "3", "4", "5", "6", "7", "8", "9">>

LowerSet == {LowerLetters[i] : i \in DOMAIN LowerLetters}
UpperSet == {UpperLetters[i] : i \in DOMAIN UpperLetters}
DigitSet == {Digits[i] : i \in DOMAIN Digits}

IsLower(c) == c \in LowerSet
IsUpper(c) == c \in UpperSet
\* [a-zA-Z]
IsLetter(c) == IsLower(c) \/ IsUpper(c)
\* \d
IsDigit(c) == c \in DigitSet
\* \s
IsSpace(c) == c \in {" ", "\t", "\n"}

\* the value of each digit, the lower-case letter of each upper-case letter
DigitValues == [c \in DigitSet |-> (CHOOSE i \in DOMAIN Digits : Digits[i] = c) - 1]
LowerOfUpper ==
    [c \in UpperSet |-> LowerLetters[CHOOSE i \in DOMAIN UpperLetters : UpperLetters[i] = c]]

DigitValue(c) == DigitValues[c]

\* String.prototype.toLowerCase
LowerChar(c) == IF IsUpper(c) THEN LowerOfUpper[c] ELSE c
toLowerCase(t) == [i \in 1..Len(t) |-> LowerChar(t[i])]

\* t has p at position i
HasAt(t, i, p) == i >= 1 /\ i + Len(p) - 1 <= Len(t) /\ SubSeq(t, i, i + Len(p) - 1) = p

\* a literal of a regular expression with the i flag matches t at position i
MatchesAt(t, i, p) ==
    /\ i >= 1 /\ i + Len(p) - 1 <= Len(t)
    /\ \A k \in 1..Len(p) : LowerChar(t[i + k - 1]) = p[k]

\* String.prototype.includes
includes(t, p) == \E i \in 1..Len(t) + 1 : HasAt(t, i, p)

\* the end of the longest run of digits (of white space) that starts at i
\* (i - 1 when there is none)
RECURSIVE DigitRunEnd(_, _)
DigitRunEnd(t, i) ==
    IF i <= Len(t) /\ IsDigit(t[i]) THEN DigitRunEnd(t, i + 1) ELSE i - 1

RECURSIVE SpaceRunEnd(_, _)
SpaceRunEnd(t, i) ==
    IF i <= Len(t) /\ IsSpace(t[i]) THEN SpaceRunEnd(t, i + 1) ELSE i - 1

\* "only words"
PhraseOnlyWords ==
    <<"o", "n", "l", "y", " ", "w", "o", "r", "d", "s">>

\* "just words"
PhraseJustWords ==
    <<"j", "u", "s", "t", " ", "w", "o", "r", "d", "s">>

\* "not a passage"
PhraseNotAPassage ==
    <<"n", "o", "t", " ", "a", " ", "p", "a", "s", "s", "a", "g", "e">>

\* "not a paragraph"
PhraseNotAParagraph ==
    <<"n", "o", "t", " ", "a", " ", "p", "a", "r", "a", "g", "r", "a", "p", 
      "h">>

\* "no explanation"
PhraseNoExplanation ==
    <<"n", "o", " ", "e", "x", "p", "l", "a", "n", "a", "t", "i", "o", "n">>

\* "starting with"
StartingWith ==
    <<"s", "t", "a", "r", "t", "i", "n", "g", " ", "w", "i", "t", "h">>

\* "word"
Word ==
    <<"w", "o", "r", "d">>

\* the fixed phrases that ask for a word list
wantsWordList(text) ==
    \E t \in {toLowerCase(text)} :
       \/ includes(t, PhraseOnlyWords)
       \/ includes(t, PhraseJustWords)
       \/ includes(t, PhraseNotAPassage)
       \/ includes(t, PhraseNotAParagraph)
       \/ includes(t, PhraseNoExplanation)

\* text.replace(/[^a-zA-Z\s]/g, " ")
ReplaceNonLetters(text) ==
    [i \in 1..Len(text) |-> IF IsLetter(text[i]) \/ IsSpace(text[i]) THEN text[i] ELSE " "]

\* String.prototype.split(/\s+/): the pieces between the runs of white space
\* (a run at either end leaves an empty piece there)
RECURSIVE SplitSpaces(_, _)
SplitSpaces(t, piece) ==
    IF t = <<>> THEN <<piece>>
    ELSE IF IsSpace(Head(t))
         THEN <<piece>> \o SplitSpaces(SubSeq(t, SpaceRunEnd(t, 1) + 1, Len(t)), <<>>)
         ELSE SplitSpaces(Tail(t), Append(piece, Head(t)))

\* Array.prototype.filter(Boolean) on strings: the non-empty ones
FilterBoolean(ws) == SelectSeq(ws, LAMBDA w : w # <<>>)

extractWords(text) == FilterBoolean(SplitSpaces(ReplaceNonLetters(text), <<>>))

\* parseInt(digits, 10)
RECURSIVE parseInt(_)
parseInt(ds) ==
    IF ds = <<>> THEN 0
    ELSE 10 * parseInt(SubSeq(ds, 1, Len(ds) - 1)) + DigitValue(ds[Len(ds)])

\* the matches of /(\d+)\s+words?/i: positions i where a run of digits
\* starts or continues, followed by white space and "word"
CountMatchAt(text, i) ==
    LET d == DigitRunEnd(text, i)
        w == SpaceRunEnd(text, d + 1)
    IN d >= i /\ w > d /\ MatchesAt(text, w + 1, Word)

\* text.match(...) takes the leftmost match; null when there is none
extractRequestedCount(text) ==
    LET at == {i \in 1..Len(text) : CountMatchAt(text, i)}
    IN IF at = {} THEN [isNull |-> TRUE, value |-> 0]
       ELSE LET i == CHOOSE j \in at : \A k \in at : j <= k
            IN [isNull |-> FALSE,
                value |-> parseInt(SubSeq(text, i, DigitRunEnd(text, i)))]

\* the matches of /starting with\s+([a-z])/i
LetterMatchAt(text, i) ==
    LET w == SpaceRunEnd(text, i + Len(StartingWith))
    IN /\ MatchesAt(text, i, StartingWith)
       /\ w >= i + Len(StartingWith)
       /\ w + 1 <= Len(text) /\ IsLetter(text[w + 1])

extractStartingLetter(text) ==
    LET at == {i \in 1..Len(text) : LetterMatchAt(text, i)}
    IN IF at = {} THEN [isNull |-> TRUE, value |-> ""]
       ELSE LET i == CHOOSE j \in at : \A k \in at : j <= k
                w == SpaceRunEnd(text, i + Len(StartingWith))
            IN [isNull |-> FALSE, value |-> LowerChar(text[w + 1])]

(***************************************************************************)
(* server.js: FORMAT ENFORCEMENT                                           *)
(***************************************************************************)
\* w.toLowerCase().startsWith(letter)
startsWith(w, letter) == Len(w) >= 1 /\ w[1] = letter

\* [...new Set(ws)]: the distinct values in the order of their insertion
RECURSIVE SetOrder(_, _)
SetOrder(ws, seen) ==
    IF ws = <<>> THEN seen
    ELSE SetOrder(Tail(ws),
                  IF \E i \in DOMAIN seen : seen[i] = Head(ws) THEN seen
                  ELSE Append(seen, Head(ws)))

\* Array.prototype.slice(0, n)
slice(ws, n) == SubSeq(ws, 1, Min(n, Len(ws)))

\* Array.prototype.join(", ")
RECURSIVE join(_)
join(ws) ==
    IF ws = <<>> THEN <<>>
    ELSE IF Len(ws) = 1 THEN ws[1]
    ELSE ws[1] \o <<",", " ">> \o join(Tail(ws))

\* if (letter): null is falsy, a letter is not
LetterGiven(letter) == ~letter.isNull

\* if (requestedCount): null and 0 are falsy
CountGiven(requestedCount) == ~requestedCount.isNull /\ requestedCount.value # 0

FilteredWords(answer, msg) ==
    LET words == extractWords(answer)
        letter == extractStartingLetter(msg)
    IN IF LetterGiven(letter)
       THEN SelectSeq(words, LAMBDA w : startsWith(toLowerCase(w), letter.value))
       ELSE words

\* new Set(words) without the lower-casing
UniqueWords_caseSensitive(words) == SetOrder(words, <<>>)

UniqueWords(words) == SetOrder([i \in 1..Len(words) |-> toLowerCase(words[i])], <<>>)

FinalWords(unique, msg) ==
    LET requestedCount == extractRequestedCount(msg)
    IN IF CountGiven(requestedCount) THEN slice(unique, requestedCount.value) ELSE unique

FormatAnswer(answer, msg) ==
    IF wantsWordList(msg)
    THEN join(FinalWords(UniqueWords(FilteredWords(answer, msg)),
                         msg))
    ELSE answer

(***************************************************************************)
(* server.js: POST /ask-doubt of the decision advisor                      *)
(***************************************************************************)
\* "only words starting with b 2 words"
AskTwoB ==
    <<"o", "n", "l", "y", " ", "w", "o", "r", "d", "s", " ", "s", "t", "a", 
      "r", "t", "i", "n", "g", " ", "w", "i", "t", "h", " ", "b", " ", "2", 
      " ", "w", "o", "r", "d", "s">>

\* "Just Words: 1 word Starting With  B"
AskOneB ==
    <<"J", "u", "s", "t", " ", "W", "o", "r", "d", "s", ":", " ", "1", " ", 
      "w", "o", "r", "d", " ", "S", "t", "a", "r", "t", "i", "n", "g", " ", 
      "W", "i", "t", "h", " ", " ", "B">>

\* "not a paragraph, 3 words starting with bees"
AskThreeB ==
    <<"n", "o", "t", " ", "a", " ", "p", "a", "r", "a", "g", "r", "a", "p", 
      "h", ",", " ", "3", " ", "w", "o", "r", "d", "s", " ", "s", "t", "a", 
      "r", "t", "i", "n", "g", " ", "w", "i", "t", "h", " ", "b", "e", "e", 
      "s">>

\* "no explanation 0 words"
AskZero ==
    <<"n", "o", " ", "e", "x", "p", "l", "a", "n", "a", "t", "i", "o", "n", 
      " ", "0", " ", "w", "o", "r", "d", "s">>

\* "only words 0 words starting with b"
AskZeroB ==
    <<"o", "n", "l", "y", " ", "w", "o", "r", "d", "s", " ", "0", " ", "w", 
      "o", "r", "d", "s", " ", "s", "t", "a", "r", "t", "i", "n", "g", " ", 
      "w", "i", "t", "h", " ", "b">>

\* "not a passage starting with a"
AskAllA ==
    <<"n", "o", "t", " ", "a", " ", "p", "a", "s", "s", "a", "g", "e", " ", 
      "s", "t", "a", "r", "t", "i", "n", "g", " ", "w", "i", "t", "h", " ", 
      "a">>

\* "only words"
AskAll ==
    <<"o", "n", "l", "y", " ", "w", "o", "r", "d", "s">>

\* "explain more"
AskProse ==
    <<"e", "x", "p", "l", "a", "i", "n", " ", "m", "o", "r", "e">>

\* "give me 5 words starting with a"
AskProseFive ==
    <<"g", "i", "v", "e", " ", "m", "e", " ", "5", " ", "w", "o", "r", "d", 
      "s", " ", "s", "t", "a", "r", "t", "i", "n", "g", " ", "w", "i", "t", 
      "h", " ", "a">>

\* the conversations clients send
Conversations ==
    { << Message("user", AskTwoB) >>,
      << Message("user", AskOneB) >>,
      << Message("user", AskThreeB) >>,
      << Message("user", AskZero) >>,
      << Message("user", AskZeroB) >>,
      << Message("user", AskAllA) >>,
      << Message("user", AskAll) >>,
      << Message("user", AskProse) >>,
      << Message("user", AskProseFive) >>,
      << Message("user", <<>>) >>,
      << Message("system", AskAll), Message("user", AskProse) >>,
      << Message("user", AskTwoB), Message("assistant", AskProse) >>,
      << Message("user", AskProse), Message("assistant", AskOneB) >>,
      << Message("user", AskAllA), Message("assistant", AskProse), Message("user", AskTwoB) >> }

\* the characters of the answers the language model returns
RawAlphabet == {"b", "B", "a", " ", ","}

RawAnswers == UNION {[1..n -> RawAlphabet] : n \in 0..MaxRawLen}

FormatterInit ==
    /\ fpc = "idle"
    /\ messages = <<>>
    /\ lastUserMessage = <<>>
    /\ rawAnswer = <<>>
    /\ fres = [status |-> 0, error |-> Null, answer |-> <<>>]

\* the request arrives; validation; lastUserMessage; the completion is asked for
\* (given: req.body.messages is an array)
advisor_validate ==
    /\ fpc = "idle"
    /\ \E given \in BOOLEAN, m \in Conversations \cup {<<>>} :
        IF ~given \/ Len(m) = 0
        THEN /\ fpc' = "done"
             /\ fres' = [fres EXCEPT !.status = 400, !.error = "Missing messages"]
             /\ UNCHANGED <<messages, lastUserMessage>>
        ELSE /\ fpc' = "completion"
             /\ messages' = m
             /\ lastUserMessage' = m[Len(m)].content
             /\ fres' = fres
    /\ UNCHANGED <<rawAnswer, svars>>

\* the completion resolves; FORMAT ENFORCEMENT; res.json({ answer })
advisor_completion ==
    /\ fpc = "completion"
    /\ \E raw \in RawAnswers :
        /\ rawAnswer' = raw
        /\ fres' = [fres EXCEPT !.status = 200,
                                !.answer = FormatAnswer(raw, lastUserMessage)]
    /\ fpc' = "done"
    /\ UNCHANGED <<messages, lastUserMessage, svars>>

\* the completion rejects: caught, 500
advisor_fails ==
    /\ fpc = "completion"
    /\ fres' = [fres EXCEPT !.status = 500, !.error = "AI error"]
    /\ fpc' = "done"
    /\ UNCHANGED <<messages, lastUserMessage, rawAnswer, svars>>

\* the store of the doubt solver is not part of this program
StoreUnused ==
    /\ ServerInit
    /\ weakTopics = <<>>

InitFmt == FormatterInit /\ StoreUnused

NextFmt ==
    \/ advisor_validate
    \/ advisor_completion
    \/ advisor_fails

SpecFmt == InitFmt /\ [][NextFmt]_vars

(***************************************************************************)
(* Properties of the doubt solver.                                         *)
(***************************************************************************)
Days == 1..MaxDay

IsDaily(r) == handler[r] = "dailyTasks"
IsAsk(r) == handler[r] = "askDoubt"
Answered(r, s) == pc[r] = "done" /\ res[r].status = s
NoStoreFailure == \A r \in Requests : res[r].status # 500

\* C1: for every calendar day, under any interleaving of concurrent
\* GET /daily-tasks requests (no store call failing), the number of DailyTasks
\* rows of the day never exceeds 5.
C1_AtMostFiveTasksPerDay ==
    NoStoreFailure => \A d \in Days : Len(TasksOfDay(dailyTasks, d)) <= 5

\* C2: under any interleaving of concurrent POST /ask-doubt requests the
\* WeakTopics table holds at most one row per topic value.
C2_OneRowPerTopic ==
    \A i, j \in 1..Len(weakTopics) :
        weakTopics[i].topic = weakTopics[j].topic => i = j

\* two rows are the same task: everything but the completion flag agrees
SameTask(a, b) == [a EXCEPT !.is_completed = 0] = [b EXCEPT !.is_completed = 0]

\* request p is a successful call of ensureDailyTasks that found its day empty,
\* request q a later successful call on the same day
TwoCalls(p, q) ==
    /\ p < q /\ IsDaily(p) /\ IsDaily(q)
    /\ Answered(p, 200) /\ Answered(q, 200)
    /\ loc[p].today = loc[q].today
    /\ loc[p].existing = 0

\* C3: two non-overlapping successful calls of ensureDailyTasks on the same
\* day, the first finding the day empty, return the same 5 tasks: the first
\* creates exactly 5 rows, the second creates none, and the day's rows are
\* still the 5 the first call returned.
C3_SecondCallReturnsSameFive ==
    \A p, q \in Requests :
        TwoCalls(p, q) =>
            /\ loc[p].inserted = 5
            /\ Len(loc[p].result) = 5
            /\ loc[q].inserted = 0
            /\ Len(loc[q].result) = 5
            /\ \A i \in 1..5 : SameTask(loc[q].result[i], loc[p].result[i])
            /\ Len(TasksOfDay(dailyTasks, loc[p].today)) = 5
            /\ \A i \in 1..5 :
                 SameTask(TasksOfDay(dailyTasks, loc[p].today)[i], loc[p].result[i])

C3_Witness == \E p, q \in Requests : TwoCalls(p, q)

\* what a step of the doubt solver may do to Doubts and WeakTopics
C6_StepOk ==
    /\ \A r \in Requests :
         /\ (handler[r] = "none" /\ handler'[r] = "askDoubt"
               /\ (~body'[r].given \/ body'[r].messages = <<>>))
            => (res'[r].status = 400 /\ doubts' = doubts /\ weakTopics' = weakTopics)
         /\ (IsAsk(r) /\ pc[r] = "getAIResponse" /\ pc'[r] = "done")
            => (res'[r].status = 500 /\ doubts' = doubts /\ weakTopics' = weakTopics)
    /\ (doubts' # doubts \/ weakTopics' # weakTopics)
         => \E r \in Requests :
               /\ IsAsk(r) /\ pc'[r] # pc[r]
               /\ body[r].given /\ body[r].messages # <<>>
               /\ pc[r] \in {"insertDoubt", "insertWeakTopic", "updateWeakTopic"}

\* C6: a POST /ask-doubt request with missing or empty messages is answered
\* 400, one whose LLM call fails is answered 500, and the steps that end in
\* either answer leave Doubts and WeakTopics as they were; a step that writes
\* to either table belongs to a request that passed validation and got its
\* answer from the LLM.
C6_NoWriteWithoutAnswer == [][C6_StepOk]_vars

\* both rejections have happened and nothing was written
C6_Witness ==
    /\ \E r \in Requests : IsAsk(r) /\ Answered(r, 400)
    /\ \E r \in Requests : IsAsk(r) /\ Answered(r, 500) /\ loc[r].topic = Null
    /\ doubts = <<>>

\* the number of successful recordings of the topic "General"
Recorded == Cardinality({r \in Requests : IsAsk(r) /\ Answered(r, 200)})

RowsOn(t) == SelectSeq(weakTopics, LAMBDA w : w.topic = t)
RowsNotOn(t) == SelectSeq(weakTopics, LAMBDA w : w.topic # t)

\* C7: after k >= 1 non-overlapping successful recordings of a topic that had
\* no row, the store holds exactly one row for it, with score k (and none
\* before the first recording); the rows of the other topics are those the
\* store started with.
C7_ScoreCountsRecordings ==
    /\ Recorded = 0 => RowsOn("General") = <<>>
    /\ Recorded >= 1 => (Len(RowsOn("General")) = 1 /\ RowsOn("General")[1].score = Recorded)
    /\ RowsNotOn("General") \in InitialWeakTopics

C7_Witness ==
    /\ Recorded = 2
    /\ Len(RowsOn("General")) = 1 /\ RowsOn("General")[1].score = 2
    /\ Len(RowsNotOn("General")) = 3

\* request p is a call of ensureDailyTasks a store failure aborted after k of
\* its inserts (1 <= k <= 4), request q a later successful call on the same
\* day that found those k rows
RetryAfterPartialBatch(p, q) ==
    /\ p < q /\ IsDaily(p) /\ IsDaily(q)
    /\ Answered(p, 500) /\ loc[p].inserted \in 1..4
    /\ Answered(q, 200)
    /\ loc[q].today = loc[p].today
    /\ loc[q].existing = loc[p].inserted

\* C8: a successful call of ensureDailyTasks after a call that a store failure
\* aborted mid-batch tops the day up to exactly 5 rows.
C8_RetryTopsUpToFive ==
    \A p, q \in Requests :
        RetryAfterPartialBatch(p, q) =>
            /\ Len(loc[q].result) = 5
            /\ Len(TasksOfDay(dailyTasks, loc[q].today)) = 5

\* the topics list is up to 3 highest-score rows of the table, best first,
\* or General when the table is empty
TopicsAreTop(topics, table) ==
    IF table = <<>> THEN topics = <<"General">>
    ELSE /\ Len(topics) = Min(3, Len(table))
         /\ \E pick \in [1..Len(topics) -> 1..Len(table)] :
              /\ \A i, j \in 1..Len(topics) : i # j => pick[i] # pick[j]
              /\ \A i \in 1..Len(topics) : table[pick[i]].topic = topics[i]
              /\ \A i, j \in 1..Len(topics) :
                   i < j => table[pick[i]].score >= table[pick[j]].score
              /\ \A n \in 1..Len(table) :
                   (\A i \in 1..Len(topics) : pick[i] # n)
                   => \A i \in 1..Len(topics) : table[pick[i]].score >= table[n].score

\* the batch the claim describes, for a topics list
BatchShape(tasks, topics) ==
    /\ Len(tasks) = 5
    /\ \A i \in 0..2 :
         /\ tasks[i + 1].task_type = "practice"
         /\ tasks[i + 1].topic = topics[(i % Len(topics)) + 1]
    /\ tasks[1].question_text = "Practice question on " \o tasks[1].topic \o " #1"
    /\ tasks[2].question_text = "Practice question on " \o tasks[2].topic \o " #2"
    /\ tasks[3].question_text = "Practice question on " \o tasks[3].topic \o " #3"
    /\ tasks[4].task_type = "revision" /\ tasks[4].topic = topics[1]
    /\ tasks[5].task_type = "concept" /\ tasks[5].topic = topics[1]

\* what the steps of ensureDailyTasks that build and insert a batch do
C10_StepOk ==
    \A r \in Requests :
        /\ (IsDaily(r) /\ pc[r] = "weakTopics" /\ pc'[r] = "insert")
           => /\ TopicsAreTop(loc'[r].topics, weakTopics)
              /\ BatchShape(loc'[r].tasks, loc'[r].topics)
        /\ (IsDaily(r) /\ pc[r] = "insert" /\ pc'[r] # "done" /\ loc'[r] # loc[r])
           => /\ loc'[r].inserted = loc[r].inserted + 1
              /\ Len(dailyTasks') = Len(dailyTasks) + 1
              /\ SubSeq(dailyTasks', 1, Len(dailyTasks)) = dailyTasks
              /\ LET row == dailyTasks'[Len(dailyTasks')]
                     t == loc[r].tasks[loc[r].inserted + 1]
                 IN /\ row.date = loc[r].today /\ row.is_completed = 0
                    /\ row.task_type = t.task_type /\ row.topic = t.topic
                    /\ row.question_text = t.question_text
              /\ (pc'[r] = "allToday" <=> loc[r].inserted = 4)
        /\ (IsDaily(r) /\ pc[r] = "allToday" /\ pc'[r] = "done" /\ res'[r].status = 200)
           => /\ loc[r].inserted = 5
              /\ dailyTasks' = dailyTasks

\* C10: whenever ensureDailyTasks generates a batch, it is 5 tasks in the
\* order practice, practice, practice, revision, concept, practice task i on
\* topics[i mod len] with text "Practice question on {topic} #{i+1}", the
\* other two on topics[0], topics being up to 3 highest-score weak topics or
\* ["General"]; each is inserted in that order with today's date and
\* is_completed = 0, and the batch is complete after the fifth insert.
C10_BatchShape == [][C10_StepOk]_vars

\* a call has inserted a whole batch built from three weak topics
C10_Witness ==
    \E r \in Requests :
        /\ IsDaily(r) /\ Answered(r, 200)
        /\ loc[r].inserted = 5 /\ Len(loc[r].topics) = 3
        /\ Len(loc[r].result) = 5

(***************************************************************************)
(* Properties of the decision advisor's formatter.                         *)
(***************************************************************************)
HasUserEntry(m) == \E i \in 1..Len(m) : m[i].role = "user"

\* the triggering message: the content of the last entry whose role is user
TriggeringMessage(m) ==
    m[CHOOSE i \in 1..Len(m) :
         m[i].role = "user" /\ \A j \in 1..Len(m) : m[j].role = "user" => j <= i].content

\* C4: the word-list decision and its parameters are those of the triggering
\* message, the last entry of the conversation whose role is user, also when
\* the conversation ends with an assistant or system entry.
C4_FormatFollowsLastUserEntry ==
    (fpc \in {"completion", "done"} /\ messages # <<>> /\ HasUserEntry(messages))
    => /\ wantsWordList(lastUserMessage) = wantsWordList(TriggeringMessage(messages))
       /\ extractStartingLetter(lastUserMessage)
            = extractStartingLetter(TriggeringMessage(messages))
       /\ extractRequestedCount(lastUserMessage)
            = extractRequestedCount(TriggeringMessage(messages))

\* the entries of a ", "-joined list (none for the empty text)
RECURSIVE Entries(_, _)
Entries(t, entry) ==
    IF t = <<>> THEN (IF entry = <<>> THEN <<>> ELSE <<entry>>)
    ELSE IF Len(t) >= 2 /\ t[1] = "," /\ t[2] = " "
         THEN <<entry>> \o Entries(SubSeq(t, 3, Len(t)), <<>>)
         ELSE Entries(Tail(t), Append(entry, Head(t)))

\* position p of text t starts a word (a maximal run of letters) that reads e
\* when lower-cased
WordAt(t, p, e) ==
    /\ p >= 1 /\ p + Len(e) - 1 <= Len(t)
    /\ \A k \in 1..Len(e) : IsLetter(t[p + k - 1]) /\ LowerChar(t[p + k - 1]) = e[k]
    /\ p = 1 \/ ~IsLetter(t[p - 1])
    /\ p + Len(e) > Len(t) \/ ~IsLetter(t[p + Len(e)])

Occurrences(t, e) == {p \in 1..Len(t) : WordAt(t, p, e)}

FirstOccurrence(t, e) == CHOOSE p \in Occurrences(t, e) : \A q \in Occurrences(t, e) : p <= q

\* the request was answered with a formatted list, for a message that asks
\* for a word list, a starting letter and a count of at least 1
ListRequested ==
    /\ fpc = "done" /\ fres.status = 200
    /\ wantsWordList(lastUserMessage)
    /\ ~extractStartingLetter(lastUserMessage).isNull
    /\ ~extractRequestedCount(lastUserMessage).isNull
    /\ extractRequestedCount(lastUserMessage).value >= 1

\* C5: for any raw answer and a message asking for a word list with starting
\* letter L and count N >= 1, the answer is a ", "-joined list of words that
\* all start with L (case-insensitively), at most N of them, no two equal
\* case-insensitively, in the order of their first occurrence in the raw
\* answer.
C5_ListOfRequestedWords ==
    ListRequested =>
        LET L == extractStartingLetter(lastUserMessage).value
            N == extractRequestedCount(lastUserMessage).value
            es == Entries(fres.answer, <<>>)
        IN /\ Len(es) <= N
           /\ \A i \in 1..Len(es) :
                /\ es[i] # <<>>
                /\ \A k \in 1..Len(es[i]) : IsLetter(es[i][k])
                /\ LowerChar(es[i][1]) = L
                /\ Occurrences(rawAnswer, toLowerCase(es[i])) # {}
           /\ \A i, j \in 1..Len(es) :
                i < j =>
                   /\ toLowerCase(es[i]) # toLowerCase(es[j])
                   /\ FirstOccurrence(rawAnswer, toLowerCase(es[i]))
                        < FirstOccurrence(rawAnswer, toLowerCase(es[j]))

\* one word was asked for, the raw answer holds two that qualify (and a
\* repetition of the first): the answer is the first
C5_Witness ==
    /\ ListRequested
    /\ lastUserMessage = AskOneB
    /\ rawAnswer = <<"B", ",", "b", "a">>
    /\ fres.answer = <<"b">>

\* C9: when the message asks for a word list and its requested count is 0,
\* the formatted answer is the empty text, whatever the raw answer holds.
C9_ZeroWordsGivesEmpty ==
    ( /\ fpc = "done" /\ fres.status = 200
      /\ wantsWordList(lastUserMessage)
      /\ ~extractRequestedCount(lastUserMessage).isNull
      /\ extractRequestedCount(lastUserMessage).value = 0 )
    => fres.answer = <<>>

====
